---------------------------- MODULE Spec2Model ----------------------------
(***************************************************************************)
(* Word-category API: the lazily initialised word_class collection, the    *)
(* provider chain generateCategories (Gemini, Mistral, local fallback) and *)
(* the GET /categories and POST /categories handlers.                      *)
(***************************************************************************)
EXTENDS Integers, Sequences, FiniteSets, TLC

VARIABLES
  gen,      \* one evaluation of generateCategories(n): its inputs, the sources
            \* it asked and its result
  lim,      \* one evaluation of the limit query parameter and the final find
  cl,       \* the db/connect module: its MongoClient cache and the callers of
            \* getClient and closeClient
  store,    \* the word_class collection: its documents in natural order
  nextId,   \* the next _id the collection hands out
  uniqueIndex,        \* the unique index on categoryName exists
  collectionPromise,  \* "null" | "pending" | "resolved" | "rejected"; "unused"
                      \* in the router that initialises when it is loaded
  initPc,   \* where the initialisation started by getCollection stands
  initStarts,         \* how many initialisations were started
  backendUp,          \* the database can be reached
  clock,    \* the wall clock, in milliseconds
  ticks,    \* how often the clock was advanced
  hs,       \* the request handlers: slot -> state of the call it runs
  calls,    \* how many requests were received
  env       \* what the environment is configured with and may send

pureVars == <<gen, lim, cl>>
dbVars   == <<store, nextId, uniqueIndex>>
initVars == <<collectionPromise, initPc, initStarts>>
timeVars == <<clock, ticks>>
envVars  == <<env, backendUp>>

vars == <<gen, lim, cl, store, nextId, uniqueIndex, collectionPromise, initPc,
          initStarts, backendUp, clock, ticks, hs, calls, env>>

(***************************************************************************)
(* Bounds of the model.                                                    *)
(***************************************************************************)
MaxN == 3            \* generateCategories(n) is explored for n in 0..MaxN
MaxRawLen == 4       \* longest limit query string explored
MaxHandlers == 2     \* handler slots: requests that can be in flight together

(***************************************************************************)
(* Small helpers on sequences.                                             *)
(***************************************************************************)
Min(a, b) == IF a < b THEN a ELSE b

Range(s) == {s[k] : k \in 1..Len(s)}

\* Array.prototype.slice(0, k)
Slice(s, k) == SubSeq(s, 1, Min(Len(s), k))

\* Array.from(new Set(s)): first occurrences, in order
Dedup(s) ==
  LET first(k) == \A j \in 1..(k - 1) : s[j] # s[k]
      kept == SelectSeq([k \in 1..Len(s) |-> k], first)
  IN [i \in 1..Len(kept) |-> s[kept[i]]]

(***************************************************************************)
(* fallbackGenerate                                                        *)
(***************************************************************************)
adjectives ==
  <<"blue", "green", "golden", "ancient", "modern", "silent", "loud",
    "quick", "slow", "bright", "dark", "tiny", "giant">>

nouns ==
  <<"garden", "river", "market", "song", "journey", "castle", "cafe",
    "street", "plate", "device", "machine", "festival", "language", "flavor">>

wordsPool ==
  <<"apple", "stone", "river", "cloud", "light", "sound", "dance", "wind",
    "fire", "earth", "ocean", "mountain", "bird", "leaf", "root", "spark",
    "tone", "glass", "bridge", "path", "seed", "pulse", "orbit", "note",
    "frame">>

FallbackTag == "No-ai-fallback"

\* Math.floor(Math.random()*10000) lies in 0..SuffixRange-1
SuffixRange == 10000

\* A source of Math.random() draws.  The draws of one call are described by
\* a few parameters: the name suffix is s1 for the indices below split and
\* s2 from there on; the j-th word drawn for record i is the pool entry
\* wseed + i + j*wstep, and every tagmod-th draw (tagmod > 0) gets the
\* "_<tag>" ending.
RandomSources(suffixes, splits) ==
  [s1 : suffixes, s2 : suffixes, split : splits,
   wseed : {0, 7}, wstep : {0, 1}, tagmod : {0, 3}, tag : {42}]

suffixAt(rnd, i) == IF i < rnd.split THEN rnd.s1 ELSE rnd.s2

wordAt(rnd, i, j) ==
  wordsPool[((rnd.wseed + i + j * rnd.wstep) % Len(wordsPool)) + 1]
    \o (IF rnd.tagmod > 0 /\ j % rnd.tagmod = 0
        THEN "_" \o ToString(rnd.tag) ELSE "")

catName(rnd, i) ==
  adjectives[(i % Len(adjectives)) + 1] \o " "
    \o nouns[(i % Len(nouns)) + 1] \o " " \o ToString(suffixAt(rnd, i))

wordsCount(i) == 5 + (i % 16)

fallbackRecord(rnd, i, now) ==
  [categoryName |-> catName(rnd, i),
   words        |-> Slice(Dedup([j \in 1..wordsCount(i) |-> wordAt(rnd, i, j - 1)]), 20),
   createdAt    |-> now,
   ai           |-> FallbackTag]

fallbackGenerate(n, rnd, now) == [k \in 1..n |-> fallbackRecord(rnd, k - 1, now)]

\* The fallbackGenerate written inside the GET handler of the router that
\* initialises at load: the same code over a nouns array of 15 entries, in
\* which "song" stands twice.
nounsInline ==
  <<"garden", "river", "market", "song", "journey", "castle", "cafe",
    "street", "plate", "song", "device", "machine", "festival", "language",
    "flavor">>

catNameInline(rnd, i) ==
  adjectives[(i % Len(adjectives)) + 1] \o " "
    \o nounsInline[(i % Len(nounsInline)) + 1] \o " " \o ToString(suffixAt(rnd, i))

fallbackGenerateInline(n, rnd, now) ==
  [k \in 1..n |-> [fallbackRecord(rnd, k - 1, now)
                     EXCEPT !.categoryName = catNameInline(rnd, k - 1)]]

(***************************************************************************)
(* One provider attempt of generateCategories: the request, the text of    *)
(* the response, the JSON found in it, the normalisation of its items.     *)
(*                                                                         *)
(* A response is [outcome, prose, fenced, json, items]:                    *)
(*   outcome  "throw"  the SDK call rejects (network, missing module)      *)
(*            "notext" the response carries no text                        *)
(*            "text"   the response carries a text                         *)
(*   prose    free text surrounds the JSON payload                         *)
(*   fenced   the payload stands in a ```json fence                        *)
(*   json     "invalid" | "nonarray" | "array": what the payload parses to *)
(*   items    the elements of the array                                    *)
(* An item is [isObject, hasName, name, wordsKind, wordsArr] with          *)
(* wordsKind "missing" | "array" | "scalar".                               *)
(***************************************************************************)
Item(name, ws) ==
  [isObject |-> TRUE, hasName |-> TRUE, name |-> name,
   wordsKind |-> "array", wordsArr |-> ws]

NamelessItem(ws) ==
  [isObject |-> TRUE, hasName |-> FALSE, name |-> "",
   wordsKind |-> "array", wordsArr |-> ws]

WordlessItem(name) ==
  [isObject |-> TRUE, hasName |-> TRUE, name |-> name,
   wordsKind |-> "missing", wordsArr |-> <<>>]

ScalarWordsItem(name) ==
  [isObject |-> TRUE, hasName |-> TRUE, name |-> name,
   wordsKind |-> "scalar", wordsArr |-> <<>>]

NullItem ==
  [isObject |-> FALSE, hasName |-> FALSE, name |-> "",
   wordsKind |-> "missing", wordsArr |-> <<>>]

Response(outcome, prose, fenced, json, items) ==
  [outcome |-> outcome, prose |-> prose, fenced |-> fenced,
   json |-> json, items |-> items]

ThrowResponse  == Response("throw", FALSE, FALSE, "invalid", <<>>)
NoTextResponse == Response("notext", FALSE, FALSE, "invalid", <<>>)
ArrayResponse(items) == Response("text", FALSE, FALSE, "array", items)
\* the request is sent and no answer ever arrives
PendingResponse == Response("pending", FALSE, FALSE, "invalid", <<>>)

\* text.match(/```json([\s\S]*?)```/) || text.match(/(\[\s*\{[\s\S]*\}\s*\])/):
\* does the text handed to JSON.parse hold exactly the payload?
matchesArrayOfObjects(resp) ==
  /\ resp.json = "array"
  /\ resp.items # <<>>
  /\ resp.items[1].isObject
  /\ resp.items[Len(resp.items)].isObject

jsonTextIsPayload(resp) ==
  \/ resp.fenced
  \/ matchesArrayOfObjects(resp)
  \/ ~resp.prose

\* p => ({ categoryName: String(p.categoryName),
\*         words: (p.words||[]).slice(0,20).map(String), createdAt, ai })
itemThrows(p) == ~p.isObject \/ p.wordsKind = "scalar"

normalizeItem(p, tag, now) ==
  [categoryName |-> IF p.hasName THEN p.name ELSE "undefined",
   words        |-> IF p.wordsKind = "array" THEN Slice(p.wordsArr, 20) ELSE <<>>,
   createdAt    |-> now,
   ai           |-> tag]

\* The try block of one provider: [returned, cats].  returned = FALSE when
\* the block ends without a return (no text) or its catch swallowed an error.
providerAttempt(resp, tag, now) ==
  IF /\ resp.outcome = "text"
     /\ jsonTextIsPayload(resp)
     /\ resp.json = "array"
     /\ \A k \in 1..Len(resp.items) : ~itemThrows(resp.items[k])
  THEN [returned |-> TRUE,
        cats |-> [k \in 1..Len(resp.items) |-> normalizeItem(resp.items[k], tag, now)]]
  ELSE [returned |-> FALSE, cats |-> <<>>]

(***************************************************************************)
(* generateCategories(n): Gemini, then Mistral, then the fallback.         *)
(* cfg = [gemini, mistral]: whether GEMINI_API_KEY / MISTRAL_API_KEY is    *)
(* set; gemResp / misResp: what the provider answers if it is asked.       *)
(***************************************************************************)
\* variant: Mistral is asked before Gemini
generateCategoriesMistralFirst(n, cfg, gemResp, misResp, rnd, now) ==
  LET g == providerAttempt(gemResp, "gemini", now)
      m == providerAttempt(misResp, "mistral", now)
  IN IF cfg.mistral /\ m.returned THEN m.cats
     ELSE IF cfg.gemini /\ g.returned THEN g.cats
     ELSE fallbackGenerate(n, rnd, now)

generateCategories(n, cfg, gemResp, misResp, rnd, now) ==
  LET g == providerAttempt(gemResp, "gemini", now)
      m == providerAttempt(misResp, "mistral", now)
  IN IF cfg.gemini /\ g.returned THEN g.cats
     ELSE IF cfg.mistral /\ m.returned THEN m.cats
     ELSE fallbackGenerate(n, rnd, now)

\* The sources one call of generateCategories asks, in the order it asks
\* them: the Gemini block is entered if (GEMINI_API_KEY) and left by its
\* return; the Mistral block likewise; the last statement is the fallback.
askedSources(cfg, gemResp, misResp) ==
  LET gemini  == IF cfg.gemini THEN <<"gemini">> ELSE <<>>
      gemDone == cfg.gemini /\ providerAttempt(gemResp, "gemini", 0).returned
      mistral == IF ~gemDone /\ cfg.mistral THEN <<"mistral">> ELSE <<>>
      misDone == ~gemDone /\ cfg.mistral /\ providerAttempt(misResp, "mistral", 0).returned
  IN gemini \o mistral \o (IF gemDone \/ misDone THEN <<>> ELSE <<FallbackTag>>)

\* await model.generateContent(prompt) / await client.chat.complete(...) is
\* awaited without a timeout: does the call of generateCategories stay at the
\* await of a provider that never answers?
awaitsForever(cfg, gemResp, misResp) ==
  \/ cfg.gemini /\ gemResp.outcome = "pending"
  \/ /\ ~(cfg.gemini /\ providerAttempt(gemResp, "gemini", 0).returned)
     /\ cfg.mistral /\ misResp.outcome = "pending"

(***************************************************************************)
(* The limit of GET /categories:                                           *)
(*   let limit = parseInt(req.query.limit, 10);                            *)
(*   if (isNaN(limit) || limit < 1 || limit > 1000) limit = 100;           *)
(* A query value is [present, chars]: absent, or a string given as the     *)
(* sequence of its characters.                                             *)
(***************************************************************************)
Digits == <<"0", "1", "2", "3", "4", "5", "6", "7", "8", "9">>

IsDigit(c) == \E k \in 1..Len(Digits) : Digits[k] = c

DigitVal(c) == (CHOOSE k \in 1..Len(Digits) : Digits[k] = c) - 1

IsSpace(c) == c = " "

RECURSIVE skipSpaces(_)
skipSpaces(cs) ==
  IF cs # <<>> /\ IsSpace(Head(cs)) THEN skipSpaces(Tail(cs)) ELSE cs

\* the value of the longest prefix of digits, given the value read so far
RECURSIVE digitsValue(_, _)
digitsValue(cs, acc) ==
  IF cs # <<>> /\ IsDigit(Head(cs))
  THEN digitsValue(Tail(cs), acc * 10 + DigitVal(Head(cs)))
  ELSE acc

\* parseInt(s, 10): leading white space, an optional sign, then digits;
\* NaN when no digit follows.
parseInt(raw) ==
  LET cs     == skipSpaces(raw.chars)
      signed == cs # <<>> /\ Head(cs) \in {"-", "+"}
      body   == IF signed THEN Tail(cs) ELSE cs
      mag    == digitsValue(body, 0)
  IN IF ~raw.present \/ body = <<>> \/ ~IsDigit(Head(body))
     THEN [nan |-> TRUE, val |-> 0]
     ELSE [nan |-> FALSE, val |-> IF signed /\ Head(cs) = "-" THEN 0 - mag ELSE mag]

DefaultLimit == 100
MaxLimit == 1000

\* variant: the limit is clamped into the range instead of replaced
getLimitClamping(raw) ==
  LET p == parseInt(raw)
  IN IF p.nan THEN DefaultLimit
     ELSE IF p.val < 1 THEN 1
     ELSE IF p.val > MaxLimit THEN MaxLimit
     ELSE p.val

getLimit(raw) ==
  LET p == parseInt(raw)
  IN IF p.nan \/ p.val < 1 \/ p.val > MaxLimit THEN DefaultLimit ELSE p.val

(***************************************************************************)
(* The collection.  A document is [id, categoryName, words, createdAt, ai]; *)
(* ai = NoTag stands for a document without the ai field (POST).           *)
(***************************************************************************)
NoTag == "none"

Doc(id, c) ==
  [id |-> id, categoryName |-> c.categoryName, words |-> c.words,
   createdAt |-> c.createdAt, ai |-> c.ai]

Times(docs) == {docs[k].createdAt : k \in 1..Len(docs)}

Names(docs) == {docs[k].categoryName : k \in 1..Len(docs)}

MaxOf(S) == CHOOSE x \in S : \A y \in S : y <= x

\* collection.find({}).sort({ createdAt: -1 }).limit(k).toArray():
\* newest first, documents of equal createdAt in natural order
RECURSIVE newestFirst(_, _, _)
newestFirst(docs, times, k) ==
  IF k <= 0 \/ times = {} THEN <<>>
  ELSE LET t    == MaxOf(times)
           here == SelectSeq(docs, LAMBDA d : d.createdAt = t)
       IN Slice(here, k) \o newestFirst(docs, times \ {t}, k - Len(here))

\* variant: no sort, the first k documents in natural order
findNatural(docs, k) == Slice(docs, k)

findRecent(docs, k) == newestFirst(docs, Times(docs), k)

(***************************************************************************)
(* Store operations used by the handlers.                                  *)
(***************************************************************************)
oneDayMs == 24 * 60 * 60 * 1000
hourMs   == 60 * 60 * 1000

Capacity == 1000      \* if (count > 1000)
SampleSize == 100     \* { $sample: { size: 100 } }
BatchSize == 100      \* generateCategories(100)

NoDate == [present |-> FALSE, at |-> 0]

\* latest[0]?.createdAt || null
lastCreatedAtOf(docs) ==
  IF docs = <<>> THEN NoDate ELSE [present |-> TRUE, at |-> MaxOf(Times(docs))]

\* variant: a store without a latest record passes for fresh
isStaleUnlessEmpty(last, now) == last.present /\ now - last.at >= oneDayMs

\* variant: the freshness window is one hour
isStaleHourly(last, now) == ~last.present \/ now - last.at >= hourMs

\* !lastCreatedAt || (now - new Date(lastCreatedAt) >= oneDayMs)
isStale(last, now) == ~last.present \/ now - last.at >= oneDayMs

\* variant: a store of exactly Capacity documents is pruned
overCapacityInclusive(count) == count >= Capacity

overCapacity(count) == count > Capacity

\* variant: the sample is not limited to k documents
sampleIdsUnbounded(docs, k, mode) == {docs[j].id : j \in 1..Len(docs)}

\* aggregate([{ $sample: { size: k } }, { $project: { _id: 1 } }]): the ids
\* of min(k, count) documents.  Which ones is the database's draw; the
\* model offers the oldest, the newest and the middle run of the natural order.
sampleIds(docs, k, mode) ==
  LET c     == Min(k, Len(docs))
      first == CASE mode = "oldest" -> 1
                 [] mode = "newest" -> Len(docs) - c + 1
                 [] OTHER -> ((Len(docs) - c) \div 2) + 1
  IN {docs[j].id : j \in first..(first + c - 1)}

\* deleteMany({ _id: { $in: ids } })
deleteMany(docs, ids) == SelectSeq(docs, LAMBDA d : d.id \notin ids)

\* variant: an ordered insert, which stops at the first rejected document
acceptedUntilConflict(docs, batch, unique) ==
  LET present == Names(docs)
      bad(k) == /\ unique
                /\ \/ batch[k].categoryName \in present
                   \/ \E j \in 1..(k - 1) : batch[j].categoryName = batch[k].categoryName
      stop == IF \E k \in 1..Len(batch) : bad(k)
              THEN CHOOSE k \in 1..Len(batch) : bad(k) /\ \A j \in 1..(k - 1) : ~bad(j)
              ELSE Len(batch) + 1
  IN SubSeq(batch, 1, stop - 1)

\* variant: the index is not consulted
acceptedAll(docs, batch, unique) == batch

\* insertMany(batch, { ordered: false }): every document is attempted; with
\* the unique index a document is rejected when its categoryName is stored
\* already or was inserted earlier in the batch.  The accepted documents:
acceptedOf(docs, batch, unique) ==
  LET present == Names(docs)
      keep(k) == \/ ~unique
                 \/ /\ batch[k].categoryName \notin present
                    /\ \A j \in 1..(k - 1) : batch[j].categoryName # batch[k].categoryName
      kept == SelectSeq([k \in 1..Len(batch) |-> k], keep)
  IN [i \in 1..Len(kept) |-> batch[kept[i]]]

withIds(cats, first) == [k \in 1..Len(cats) |-> Doc(first + k - 1, cats[k])]

\* variant: an upsert, which overwrites the stored document of a batch name
insertManyUpserting(docs, batch, unique, first) ==
  LET fresh(k) == \A j \in 1..Len(batch) : batch[j].categoryName # docs[k].categoryName
      byName(n) == batch[CHOOSE j \in 1..Len(batch) : batch[j].categoryName = n]
      updated == [k \in 1..Len(docs) |->
                    IF fresh(k) THEN docs[k] ELSE Doc(docs[k].id, byName(docs[k].categoryName))]
  IN updated \o withIds(acceptedOf(docs, batch, TRUE), first)

insertMany(docs, batch, unique, first) ==
  docs \o withIds(acceptedOf(docs, batch, unique), first)

\* variant: insertOne never reports a conflict
insertOneNeverConflicts(docs, name, unique) == FALSE

\* insertOne(doc): E11000 when the unique index rejects the name
insertOneConflicts(docs, name, unique) == unique /\ name \in Names(docs)

noDuplicateNames(docs) == Cardinality(Names(docs)) = Len(docs)

(***************************************************************************)
(* The environment: which provider keys are set, what the providers        *)
(* answer, what Math.random() and $sample draw, which requests arrive.     *)
(* env = [gemini, mistral, parallel, maxCalls, maxTicks, flakyIndex,       *)
(*        raws, bodies, answers, draws, samples]                           *)
(***************************************************************************)
Handlers == 1..MaxHandlers

AbsentRaw == [present |-> FALSE, chars |-> <<>>]
RawOf(cs) == [present |-> TRUE, chars |-> cs]

\* the body of a POST: categoryName is missing, a string, a number (name holds
\* its digits) or an object; words is missing, a scalar or an array, whose
\* elements are all strings or not
Body(nameKind, name, wordsKind, words, strings) ==
  [nameKind |-> nameKind, name |-> name, wordsKind |-> wordsKind,
   words |-> words, strings |-> strings]

NoBody == Body("missing", "", "missing", <<>>, TRUE)

GoodBody(name) == Body("string", name, "array", <<"un", "deux">>, TRUE)

\* what a provider may answer to a request for n items, by key
providerBatch(c) == [j \in 1..c |-> Item("ia " \o ToString(j), <<"mot">>)]

answerOf(key) ==
  CASE key = "throw" -> ThrowResponse
    [] key = "empty" -> ArrayResponse(<<>>)
    [] key = "short" -> ArrayResponse(providerBatch(1))
    [] key = "exact" -> ArrayResponse(providerBatch(BatchSize))
    [] key = "hang"  -> PendingResponse
    [] OTHER         -> ArrayResponse(providerBatch(BatchSize + 50))

\* what Math.random() may draw in fallbackGenerate, by key: one suffix for
\* the whole batch, or the suffix 3 for the first record only
drawOf(key) ==
  LET whole(s) == [s1 |-> s, s2 |-> s, split |-> 0, wseed |-> 0, wstep |-> 0,
                   tagmod |-> 0, tag |-> 42]
  IN CASE key = "s3"   -> whole(3)
       [] key = "s3x1" -> [whole(SuffixRange - 1) EXCEPT !.s1 = 3, !.split = 1]
       [] key = "s9998" -> whole(SuffixRange - 2)
       [] OTHER        -> whole(SuffixRange - 1)

\* the draw used by a call: by key, or, for the key "new", a suffix that none
\* of the documents stored so far carries (n counts the documents inserted)
drawFor(key, n) ==
  IF key = "new"
  THEN [s1 |-> n % SuffixRange, s2 |-> n % SuffixRange, split |-> 0, wseed |-> 0,
        wstep |-> 0, tagmod |-> 0, tag |-> 42]
  ELSE drawOf(key)

(***************************************************************************)
(* getCollection and the initialisation it starts once.                    *)
(***************************************************************************)
\* if (!collectionPromise) { collectionPromise = (async () => {...})(); }
getCollection ==
  IF collectionPromise = "null"
  THEN /\ collectionPromise' = "pending"
       /\ initPc' = "connectToDb"
       /\ initStarts' = initStarts + 1
  ELSE UNCHANGED initVars

\* await connectToDb(...) resolves
InitConnected ==
  /\ initPc = "connectToDb"
  /\ backendUp
  /\ initPc' = "createIndex"
  /\ UNCHANGED <<pureVars, dbVars, collectionPromise, initStarts, timeVars, hs, calls, envVars>>

\* await connectToDb(...) rejects: the promise stored in collectionPromise rejects
InitConnectFailed ==
  /\ initPc = "connectToDb"
  /\ ~backendUp
  /\ initPc' = "failed"
  /\ collectionPromise' = "rejected"
  /\ UNCHANGED <<pureVars, dbVars, initStarts, timeVars, hs, calls, envVars>>

\* createIndex({ categoryName: 1 }, { unique: true }) succeeds
InitIndexCreated ==
  /\ initPc = "createIndex"
  /\ noDuplicateNames(store)
  /\ uniqueIndex' = TRUE
  /\ initPc' = "done"
  /\ collectionPromise' = "resolved"
  /\ UNCHANGED <<pureVars, store, nextId, initStarts, timeVars, hs, calls, envVars>>

\* variant: no catch around createIndex, its error rejects the promise
InitIndexFailedRejects ==
  /\ initPc = "createIndex"
  /\ ~uniqueIndex
  /\ ~noDuplicateNames(store) \/ env.flakyIndex
  /\ initPc' = "failed"
  /\ collectionPromise' = "rejected"
  /\ UNCHANGED <<pureVars, dbVars, initStarts, timeVars, hs, calls, envVars>>

\* createIndex throws (duplicates in the collection, or any other error):
\* the catch logs it and the collection is returned all the same
InitIndexFailed ==
  /\ initPc = "createIndex"
  /\ ~uniqueIndex
  /\ ~noDuplicateNames(store) \/ env.flakyIndex
  /\ initPc' = "done"
  /\ collectionPromise' = "resolved"
  /\ UNCHANGED <<pureVars, dbVars, initStarts, timeVars, hs, calls, envVars>>

\* the database becomes reachable
BackendRecovers ==
  /\ ~backendUp
  /\ backendUp' = TRUE
  /\ UNCHANGED <<pureVars, dbVars, initVars, timeVars, hs, calls, env>>

\* time passes
Tick(d) ==
  /\ ticks < env.maxTicks
  /\ clock' = clock + d
  /\ ticks' = ticks + 1
  /\ UNCHANGED <<pureVars, dbVars, initVars, hs, calls, envVars>>

(***************************************************************************)
(* The handlers.  A slot of hs runs one call at a time:                    *)
(*   kind "none" | "get" | "post", pc the await the call stands at,        *)
(*   raw / body the request, limit, now, count, last the handler's locals, *)
(*   toRemove, newCats likewise, status and docs the response;             *)
(*   deleted, inserted, generated, pruned, refreshed record what the call  *)
(*   did; nameTaken whether insertOne met a stored document of its name;   *)
(*   failedAtCall, startedInit what its getCollection() call met; prev the *)
(*   kind of the call the slot ran before.                                 *)
(***************************************************************************)
IdleHandler ==
  [kind |-> "none", pc |-> "idle", raw |-> AbsentRaw, body |-> NoBody,
   limit |-> 0, now |-> 0, count |-> 0, last |-> NoDate, toRemove |-> {},
   newCats |-> <<>>, status |-> 0, docs |-> <<>>,
   deleted |-> 0, inserted |-> 0, generated |-> 0,
   pruned |-> FALSE, refreshed |-> FALSE,
   nameTaken |-> FALSE, failedAtCall |-> FALSE, startedInit |-> FALSE, prev |-> "none"]

InFlight == {h \in Handlers : hs[h].pc \notin {"idle", "done"}}

\* a request is taken by the lowest free slot
canStart(h) ==
  /\ hs[h].pc \in {"idle", "done"}
  /\ calls < env.maxCalls
  /\ Cardinality(InFlight) < env.parallel
  /\ \A g \in Handlers : g < h => hs[g].pc \notin {"idle", "done"}

started(h, kind, raw, body) ==
  [IdleHandler EXCEPT !.kind = kind, !.pc = "getCollection", !.raw = raw, !.body = body,
                      !.failedAtCall = (collectionPromise = "rejected"),
                      !.startedInit = (collectionPromise = "null"),
                      !.prev = hs[h].kind]

\* router.get('/categories'): collection = await getCollection()
GetStart(h, raw) ==
  /\ canStart(h)
  /\ hs' = [hs EXCEPT ![h] = started(h, "get", raw, NoBody)]
  /\ calls' = calls + 1
  /\ getCollection
  /\ UNCHANGED <<pureVars, dbVars, timeVars, envVars>>

\* catch (err) { return res.status(503) }
GetNotReady(h) ==
  /\ hs[h].kind = "get" /\ hs[h].pc = "getCollection"
  /\ collectionPromise = "rejected"
  /\ hs' = [hs EXCEPT ![h].pc = "done", ![h].status = 503]
  /\ UNCHANGED <<pureVars, dbVars, initVars, timeVars, calls, envVars>>

\* the limit, now = new Date(), then countDocuments() is awaited
GetBegin(h) ==
  /\ hs[h].kind = "get" /\ hs[h].pc = "getCollection"
  /\ collectionPromise = "resolved"
  /\ hs' = [hs EXCEPT ![h].pc = "countDocuments",
                      ![h].limit = getLimit(hs[h].raw),
                      ![h].now = clock]
  /\ UNCHANGED <<pureVars, dbVars, initVars, timeVars, calls, envVars>>

GetCount(h) ==
  /\ hs[h].kind = "get" /\ hs[h].pc = "countDocuments"
  /\ hs' = [hs EXCEPT ![h].pc = "findLatest", ![h].count = Len(store)]
  /\ UNCHANGED <<pureVars, dbVars, initVars, timeVars, calls, envVars>>

\* variant: the pruning insert stands in for the freshness insert
afterPruneSkipsRefresh(last, now) == "find"

\* where the handler goes once the pruning block is behind it
afterPrune(last, now) == IF isStale(last, now) THEN "generate2" ELSE "find"

\* latest = find().sort({createdAt:-1}).limit(1); then if (count > 1000)
GetLatest(h) ==
  /\ hs[h].kind = "get" /\ hs[h].pc = "findLatest"
  /\ LET last == lastCreatedAtOf(store)
     IN hs' = [hs EXCEPT ![h].last = last,
                         ![h].pc = IF overCapacity(hs[h].count) THEN "sample"
                                   ELSE afterPrune(last, hs[h].now)]
  /\ UNCHANGED <<pureVars, dbVars, initVars, timeVars, calls, envVars>>

GetSample(h, mode) ==
  /\ hs[h].kind = "get" /\ hs[h].pc = "sample"
  /\ LET ids == sampleIds(store, SampleSize, mode)
     IN hs' = [hs EXCEPT ![h].toRemove = ids,
                         ![h].pruned = TRUE,
                         ![h].pc = IF ids # {} THEN "deleteMany" ELSE "generate1"]
  /\ UNCHANGED <<pureVars, dbVars, initVars, timeVars, calls, envVars>>

GetDelete(h) ==
  /\ hs[h].kind = "get" /\ hs[h].pc = "deleteMany"
  /\ LET kept == deleteMany(store, hs[h].toRemove)
     IN /\ store' = kept
        /\ hs' = [hs EXCEPT ![h].pc = "generate1",
                            ![h].deleted = hs[h].deleted + (Len(store) - Len(kept))]
  /\ UNCHANGED <<pureVars, nextId, uniqueIndex, initVars, timeVars, calls, envVars>>

\* The inputs of one generateCategories call that make a difference: the
\* answer of a provider that is asked, the draw when the fallback runs.
returns(key) == providerAttempt(answerOf(key), "", 0).returned

genChoices ==
  LET anyAnswer == CHOOSE a \in env.answers : TRUE
      anyDraw   == CHOOSE d \in env.draws : TRUE
  IN {<<g, m, d>> \in env.answers \X env.answers \X env.draws :
        /\ ~env.gemini => g = anyAnswer
        /\ (~env.mistral \/ (env.gemini /\ returns(g))) => m = anyAnswer
        /\ ((env.gemini /\ returns(g)) \/ (env.mistral /\ returns(m))) => d = anyDraw}

\* newCats = await generateCategories(100), in the pruning block (generate1)
\* or in the freshness block (generate2)
GetGenerate(h) ==
  /\ hs[h].kind = "get" /\ hs[h].pc \in {"generate1", "generate2"}
  /\ \E c \in genChoices :
       LET cfg == [gemini |-> env.gemini, mistral |-> env.mistral]
       IN IF awaitsForever(cfg, answerOf(c[1]), answerOf(c[2]))
          THEN hs' = [hs EXCEPT ![h].pc = "providerPending"]
          ELSE \E cats \in {generateCategories(BatchSize, cfg, answerOf(c[1]), answerOf(c[2]),
                                                drawFor(c[3], nextId), clock)} :
                 hs' = [hs EXCEPT ![h].newCats = cats,
                                  ![h].generated = hs[h].generated + Len(cats),
                                  ![h].refreshed = (hs[h].refreshed \/ hs[h].pc = "generate2"),
                                  ![h].pc = IF hs[h].pc = "generate1" THEN "insertMany1"
                                            ELSE "insertMany2"]
  /\ UNCHANGED <<pureVars, dbVars, initVars, timeVars, calls, envVars>>

\* await collection.insertMany(newCats, { ordered: false }).catch(...)
GetInsert(h) ==
  /\ hs[h].kind = "get" /\ hs[h].pc \in {"insertMany1", "insertMany2"}
  /\ \E after \in {insertMany(store, hs[h].newCats, uniqueIndex, nextId)} :
     LET added == Len(after) - Len(store)
     IN /\ store' = after
        /\ nextId' = nextId + added
        /\ hs' = [hs EXCEPT ![h].inserted = hs[h].inserted + added,
                            ![h].newCats = <<>>,
                            ![h].pc = IF hs[h].pc = "insertMany1"
                                      THEN afterPrune(hs[h].last, hs[h].now)
                                      ELSE "find"]
  /\ UNCHANGED <<pureVars, uniqueIndex, initVars, timeVars, calls, envVars>>

\* docs = find().sort({createdAt:-1}).limit(limit); res.json(docs)
GetFind(h) ==
  /\ hs[h].kind = "get" /\ hs[h].pc = "find"
  /\ hs' = [hs EXCEPT ![h].pc = "done", ![h].status = 200,
                      ![h].docs = findRecent(store, hs[h].limit)]
  /\ UNCHANGED <<pureVars, dbVars, initVars, timeVars, calls, envVars>>

\* router.post('/categories'): collection = await getCollection()
PostStart(h, body) ==
  /\ canStart(h)
  /\ hs' = [hs EXCEPT ![h] = started(h, "post", AbsentRaw, body)]
  /\ calls' = calls + 1
  /\ getCollection
  /\ UNCHANGED <<pureVars, dbVars, timeVars, envVars>>

PostNotReady(h) ==
  /\ hs[h].kind = "post" /\ hs[h].pc = "getCollection"
  /\ collectionPromise = "rejected"
  /\ hs' = [hs EXCEPT ![h].pc = "done", ![h].status = 503]
  /\ UNCHANGED <<pureVars, dbVars, initVars, timeVars, calls, envVars>>

\* !categoryName: undefined, "", 0 are falsy; any other string or number, and
\* every object or array, is truthy
nameFalsy(b) ==
  \/ b.nameKind = "missing"
  \/ b.nameKind = "string" /\ b.name = ""
  \/ b.nameKind = "number" /\ b.name = "0"

\* !categoryName || !Array.isArray(words) || words.length < 1
\*   || words.length > 20 || !words.every(w => typeof w === 'string')
bodyInvalid(b) ==
  \/ nameFalsy(b)
  \/ b.wordsKind # "array"
  \/ Len(b.words) < 1
  \/ Len(b.words) > 20
  \/ ~b.strings

\* the categoryName stored by insertOne({ categoryName, ... }): the value as
\* it was sent, a string or not
nameValue(b) == IF b.nameKind = "string" THEN b.name ELSE b.nameKind \o ":" \o b.name

PostValidate(h) ==
  /\ hs[h].kind = "post" /\ hs[h].pc = "getCollection"
  /\ collectionPromise = "resolved"
  /\ hs' = [hs EXCEPT ![h].pc = IF bodyInvalid(hs[h].body) THEN "done" ELSE "insertOne",
                      ![h].status = IF bodyInvalid(hs[h].body) THEN 400 ELSE 0]
  /\ UNCHANGED <<pureVars, dbVars, initVars, timeVars, calls, envVars>>

\* insertOne({ categoryName, words, createdAt: new Date() }): 201, or 409 on E11000
PostInsert(h) ==
  /\ hs[h].kind = "post" /\ hs[h].pc = "insertOne"
  /\ IF insertOneConflicts(store, nameValue(hs[h].body), uniqueIndex)
     THEN /\ hs' = [hs EXCEPT ![h].pc = "done", ![h].status = 409, ![h].nameTaken = TRUE]
          /\ UNCHANGED <<store, nextId>>
     ELSE /\ store' = Append(store, [id |-> nextId, categoryName |-> nameValue(hs[h].body),
                                     words |-> hs[h].body.words, createdAt |-> clock,
                                     ai |-> NoTag])
          /\ nextId' = nextId + 1
          /\ hs' = [hs EXCEPT ![h].pc = "done", ![h].status = 201, ![h].inserted = 1,
                              ![h].nameTaken = (nameValue(hs[h].body) \in Names(store))]
  /\ UNCHANGED <<pureVars, uniqueIndex, initVars, timeVars, calls, envVars>>

Step ==
  \/ InitConnected
  \/ InitConnectFailed
  \/ InitIndexCreated
  \/ InitIndexFailed
  \/ BackendRecovers
  \/ \E d \in env.tickSteps : Tick(d)
  \/ \E h \in Handlers :
       \/ \E raw \in env.raws : GetStart(h, raw)
       \/ GetNotReady(h)
       \/ GetBegin(h)
       \/ GetCount(h)
       \/ GetLatest(h)
       \/ \E mode \in env.samples : GetSample(h, mode)
       \/ GetDelete(h)
       \/ GetGenerate(h)
       \/ GetInsert(h)
       \/ GetFind(h)
       \/ \E body \in env.bodies : PostStart(h, body)
       \/ PostNotReady(h)
       \/ PostValidate(h)
       \/ PostInsert(h)

(***************************************************************************)
(* Initial collections: batches the fallback generator left on earlier     *)
(* days (batch b carries the suffix b), the newest of them at SeedLatest.  *)
(***************************************************************************)
SeedLatest == 14 * oneDayMs

seedDraw(b) ==
  [s1 |-> b, s2 |-> b, split |-> 0, wseed |-> 0, wstep |-> 0, tagmod |-> 0, tag |-> 42]

RECURSIVE seedStore(_, _)
seedStore(nb, latest) ==
  IF nb = 0 THEN <<>>
  ELSE seedStore(nb - 1, latest - oneDayMs)
         \o withIds(fallbackGenerate(BatchSize, seedDraw(nb), latest), (nb - 1) * BatchSize + 1)

\* two documents of one name, stored while no unique index was in place
duplicateStore ==
  <<[id |-> 1, categoryName |-> "fruits", words |-> <<"pomme">>, createdAt |-> SeedLatest, ai |-> NoTag],
    [id |-> 2, categoryName |-> "fruits", words |-> <<"poire">>, createdAt |-> SeedLatest, ai |-> NoTag]>>

EnvOff ==
  [gemini |-> FALSE, mistral |-> FALSE, parallel |-> 0, maxCalls |-> 0,
   maxTicks |-> 0, flakyIndex |-> FALSE, raws |-> {}, bodies |-> {},
   answers |-> {}, draws |-> {}, samples |-> {}, tickSteps |-> {}]

(***************************************************************************)
(* The db/connect module: getClient and closeClient.  Two versions exist:  *)
(*   "cached"   let cachedClient = null; it is set after connect()         *)
(*   "flagged"  let _client = null; let _connected = false; _client is set *)
(*              before connect(), _connected after it; closeClient         *)
(* MongoClient instances are numbered in the order they are constructed;   *)
(* 0 stands for null.  A caller is [pc, client, got, closedBefore]: client  *)
(* the instance its connect() runs on, got what the call returned,         *)
(* closedBefore the instances closed when it called.  overlaps counts the  *)
(* calls made while another call was at its await.                         *)
(***************************************************************************)
MaxCallers == 2      \* callers of getClient that can be at its await together
ClientCalls == 3     \* getClient calls made
MaxCloses == 1       \* closeClient calls made

Callers == 1..MaxCallers

CallerIdle ==
  [pc |-> "idle", client |-> 0, got |-> 0, closedBefore |-> {}]

ClientIdle(variant) ==
  [variant |-> variant, client |-> 0, connected |-> FALSE,
   built |-> 0, connects |-> 0, failed |-> 0, calls |-> 0, overlaps |-> 0,
   closes |-> 0, closePc |-> "idle", closing |-> 0, closed |-> {},
   callers |-> [c \in Callers |-> CallerIdle]]

ClientOff == [ClientIdle("off") EXCEPT !.calls = ClientCalls, !.closes = MaxCloses]

mayCall(c) == cl.callers[c].pc # "connect" /\ cl.calls < ClientCalls

called(c) == [CallerIdle EXCEPT !.closedBefore = cl.closed]

overlap == IF \E d \in Callers : cl.callers[d].pc = "connect" THEN 1 ELSE 0

\* getClient of db/connect.js: if (cachedClient) return cachedClient;
\* const client = new MongoClient(...); await client.connect()
GetClientCached(c) ==
  /\ cl.variant = "cached"
  /\ mayCall(c)
  /\ cl' = IF cl.client # 0
           THEN [cl EXCEPT !.calls = cl.calls + 1,
                           !.overlaps = cl.overlaps + overlap,
                           !.callers[c] = [called(c) EXCEPT !.pc = "done", !.got = cl.client]]
           ELSE [cl EXCEPT !.calls = cl.calls + 1,
                           !.overlaps = cl.overlaps + overlap,
                           !.built = cl.built + 1,
                           !.connects = cl.connects + 1,
                           !.callers[c] = [called(c) EXCEPT !.pc = "connect",
                                                            !.client = cl.built + 1]]
  /\ UNCHANGED <<gen, lim, dbVars, initVars, timeVars, hs, calls, envVars>>

\* connect() resolves: cachedClient = client; return client
ConnectedCached(c) ==
  /\ cl.variant = "cached"
  /\ cl.callers[c].pc = "connect"
  /\ cl' = [cl EXCEPT !.client = cl.callers[c].client,
                      !.callers[c].pc = "done",
                      !.callers[c].got = cl.callers[c].client]
  /\ UNCHANGED <<gen, lim, dbVars, initVars, timeVars, hs, calls, envVars>>

\* getClient of the second version: if (_connected && _client) return _client;
\* if (!_client) _client = new MongoClient(...); await _client.connect()
GetClientFlagged(c) ==
  /\ cl.variant = "flagged"
  /\ mayCall(c)
  /\ cl' = IF cl.connected /\ cl.client # 0
           THEN [cl EXCEPT !.calls = cl.calls + 1,
                           !.overlaps = cl.overlaps + overlap,
                           !.callers[c] = [called(c) EXCEPT !.pc = "done", !.got = cl.client]]
           ELSE LET inst == IF cl.client = 0 THEN cl.built + 1 ELSE cl.client
                IN [cl EXCEPT !.calls = cl.calls + 1,
                              !.overlaps = cl.overlaps + overlap,
                              !.client = inst,
                              !.built = IF cl.client = 0 THEN cl.built + 1 ELSE cl.built,
                              !.connects = cl.connects + 1,
                              !.callers[c] = [called(c) EXCEPT !.pc = "connect",
                                                               !.client = inst]]
  /\ UNCHANGED <<gen, lim, dbVars, initVars, timeVars, hs, calls, envVars>>

\* connect() resolves: _connected = true; return _client
ConnectedFlagged(c) ==
  /\ cl.variant = "flagged"
  /\ cl.callers[c].pc = "connect"
  /\ cl' = [cl EXCEPT !.connected = TRUE,
                      !.callers[c].pc = "done",
                      !.callers[c].got = cl.client]
  /\ UNCHANGED <<gen, lim, dbVars, initVars, timeVars, hs, calls, envVars>>

\* connect() rejects: getClient throws, the module variables stay as they are
ConnectRejected(c) ==
  /\ cl.callers[c].pc = "connect"
  /\ cl' = [cl EXCEPT !.failed = cl.failed + 1,
                      !.callers[c].pc = "threw"]
  /\ UNCHANGED <<gen, lim, dbVars, initVars, timeVars, hs, calls, envVars>>

\* closeClient: if (_client) { await _client.close(); ...
CloseStart ==
  /\ cl.variant = "flagged"
  /\ cl.closePc = "idle"
  /\ cl.closes < MaxCloses
  /\ cl' = IF cl.client # 0
           THEN [cl EXCEPT !.closePc = "closing", !.closing = cl.client]
           ELSE [cl EXCEPT !.closes = cl.closes + 1]
  /\ UNCHANGED <<gen, lim, dbVars, initVars, timeVars, hs, calls, envVars>>

\* ... _client = null; _connected = false; }
CloseDone ==
  /\ cl.closePc = "closing"
  /\ cl' = [cl EXCEPT !.closePc = "idle",
                      !.closes = cl.closes + 1,
                      !.closed = cl.closed \cup {cl.closing},
                      !.closing = 0,
                      !.client = 0,
                      !.connected = FALSE]
  /\ UNCHANGED <<gen, lim, dbVars, initVars, timeVars, hs, calls, envVars>>

ServiceOff ==
  /\ store = <<>> /\ nextId = 1 /\ uniqueIndex = FALSE
  /\ collectionPromise = "null" /\ initPc = "none" /\ initStarts = 0
  /\ backendUp = FALSE /\ clock = 0 /\ ticks = 0
  /\ hs = [h \in Handlers |-> IdleHandler] /\ calls = 0
  /\ env = EnvOff

\* the service as the module is loaded at time t, over a collection docs
ServiceStartAt(docs, t) ==
  /\ store = docs
  /\ nextId = Len(docs) + 1
  /\ uniqueIndex = FALSE
  /\ collectionPromise = "null" /\ initPc = "none" /\ initStarts = 0
  /\ clock = t
  /\ ticks = 0
  /\ hs = [h \in Handlers |-> IdleHandler]
  /\ calls = 0

ServiceStart(docs, age) == ServiceStartAt(docs, SeedLatest + age)

(***************************************************************************)
(* Specification of the provider chain alone: the inputs of one call are   *)
(* drawn in Init, Generate applies the function.                           *)
(***************************************************************************)
ChainItems ==
  { Item("fruits", <<"pomme", "poire">>),
    Item("", <<"a">>),
    Item("vide", <<>>),
    Item("long", [j \in 1..21 |-> "m" \o ToString(j)]),
    NamelessItem(<<"x">>),
    WordlessItem("sans"),
    ScalarWordsItem("texte"),
    NullItem }

ChainItemSeqs ==
  {<<>>} \cup {<<a>> : a \in ChainItems}
         \cup {<<a, b>> : a \in {Item("fruits", <<"pomme", "poire">>), NullItem},
                          b \in ChainItems}
         \cup {[k \in 1..c |-> Item("cat " \o ToString(k), <<"mot">>)] : c \in 3..(MaxN + 1)}

ChainResponses ==
  {ThrowResponse, NoTextResponse,
   Response("text", FALSE, FALSE, "invalid", <<>>),
   Response("text", TRUE, FALSE, "invalid", <<>>),
   Response("text", FALSE, FALSE, "nonarray", <<>>),
   Response("text", FALSE, TRUE, "nonarray", <<>>)}
  \cup {Response("text", p, f, "array", s) :
          p \in BOOLEAN, f \in BOOLEAN, s \in ChainItemSeqs}

ChainRandom == RandomSources({0, SuffixRange - 1}, {0, 1})

GenIdle(n, cfg, gemResp, misResp, rnd) ==
  [pc |-> "call", n |-> n, cfg |-> cfg, gemResp |-> gemResp, misResp |-> misResp,
   rnd |-> rnd, result |-> <<>>, asked |-> <<>>]

GenOff ==
  [pc |-> "off", n |-> 0, cfg |-> [gemini |-> FALSE, mistral |-> FALSE],
   gemResp |-> ThrowResponse, misResp |-> ThrowResponse,
   rnd |-> CHOOSE r \in ChainRandom : TRUE, result |-> <<>>, asked |-> <<>>]

LimOff == [pc |-> "off", raw |-> [present |-> FALSE, chars |-> <<>>], limit |-> 0, docs |-> <<>>]

InitChain ==
  /\ gen \in {GenIdle(n, c, g, m, r) :
                n \in 0..MaxN,
                c \in [gemini : BOOLEAN, mistral : BOOLEAN],
                g \in ChainResponses,
                m \in {ThrowResponse, NoTextResponse, ArrayResponse(<<>>),
                       ArrayResponse(<<Item("ville", <<"rue">>)>>)},
                r \in {x \in ChainRandom : x.s1 = 0 /\ x.s2 = 0 /\ x.split = 0 /\ x.wseed = 0}}
  /\ lim = LimOff /\ cl = ClientOff
  /\ ServiceOff

Generate ==
  /\ gen.pc = "call"
  /\ gen' = [gen EXCEPT !.pc = "returned",
               !.result = generateCategories(gen.n, gen.cfg, gen.gemResp, gen.misResp,
                                             gen.rnd, 0),
               !.asked = askedSources(gen.cfg, gen.gemResp, gen.misResp)]
  /\ UNCHANGED <<lim, cl, dbVars, initVars, timeVars, hs, calls, envVars>>

NextChain == Generate

SpecChain == InitChain /\ [][NextChain]_vars

(***************************************************************************)
(* Specification of the limit alone: a query value and a small collection  *)
(* are drawn in Init, ApplyLimit computes the limit and the page returned. *)
(***************************************************************************)
RawChars == {"0", "1", "5", "a", "-", " "}

RECURSIVE CharSeqs(_)
CharSeqs(n) ==
  IF n = 0 THEN {<<>>}
  ELSE LET shorter == CharSeqs(n - 1)
       IN shorter \cup {Append(s, c) : s \in {x \in shorter : Len(x) = n - 1}, c \in RawChars}

RawLimits ==
  {[present |-> FALSE, chars |-> <<>>]}
    \cup {[present |-> TRUE, chars |-> cs] : cs \in CharSeqs(MaxRawLen)}
    \cup {[present |-> TRUE, chars |-> <<"5", "0", "0", "0", "0">>],
          [present |-> TRUE, chars |-> <<"1", "0", "0", "1">>],
          [present |-> TRUE, chars |-> <<"1", "2", "a", "b", "c">>]}

\* c documents, one per millisecond
SmallStore(c) ==
  [k \in 1..c |-> [id |-> k, categoryName |-> "cat " \o ToString(k), words |-> <<"mot">>,
                   createdAt |-> k, ai |-> NoTag]]

InitLimit ==
  /\ gen = GenOff /\ cl = ClientOff
  /\ lim \in {[pc |-> "query", raw |-> r, limit |-> 0, docs |-> <<>>] : r \in RawLimits}
  /\ store \in {SmallStore(c) : c \in {0, 3, 12}}
  /\ nextId = Len(store) + 1 /\ uniqueIndex = FALSE
  /\ collectionPromise = "null" /\ initPc = "none" /\ initStarts = 0
  /\ backendUp = FALSE /\ clock = 0 /\ ticks = 0
  /\ hs = [h \in Handlers |-> IdleHandler] /\ calls = 0
  /\ env = EnvOff

ApplyLimit ==
  /\ lim.pc = "query"
  /\ lim' = [lim EXCEPT !.pc = "answered",
               !.limit = getLimit(lim.raw),
               !.docs = findRecent(store, getLimit(lim.raw))]
  /\ UNCHANGED <<gen, cl, dbVars, initVars, timeVars, hs, calls, envVars>>

NextLimit == ApplyLimit

SpecLimit == InitLimit /\ [][NextLimit]_vars

(***************************************************************************)
(* Specification of the service with one request at a time.                *)
(***************************************************************************)
SeqCalls == 2        \* requests received, on a collection of at most Capacity documents
BigCalls == 1        \* requests received, on a collection over Capacity
SeqTicks == 1        \* clock advances, on a collection of at most one batch

SeqEnv(gemini, nb) ==
  [gemini |-> gemini, mistral |-> FALSE, parallel |-> 1,
   maxCalls |-> IF nb * BatchSize > Capacity THEN BigCalls ELSE SeqCalls,
   maxTicks |-> IF nb > 1 THEN 0 ELSE SeqTicks,
   flakyIndex |-> TRUE,
   raws |-> IF nb > 1 THEN {AbsentRaw} ELSE {AbsentRaw, RawOf(<<"2">>)},
   bodies |-> {GoodBody("fruits"), GoodBody("blue garden 1"),
               Body("string", "", "array", <<"un">>, TRUE)},
   answers |-> {"throw", "empty", "exact", "over"},
   draws |-> {"s3", "s3x1", "s9999"},
   samples |-> {"oldest", "newest"},
   tickSteps |-> {oneDayMs}]

\* <<batches stored, age of the newest>>
SeqScenarios ==
  { <<0, 0>>, <<1, 2 * hourMs>>, <<1, oneDayMs>>, <<10, oneDayMs - 1>>,
    <<15, 2 * hourMs>>, <<15, 2 * oneDayMs>> }

\* the collections a run starts from, with the age of their newest document
SeqStarts ==
  {[docs |-> seedStore(sc[1], SeedLatest), age |-> sc[2]] : sc \in SeqScenarios}
    \cup {[docs |-> duplicateStore, age |-> hourMs]}

InitSeq ==
  /\ gen = GenOff /\ cl = ClientOff /\ lim = LimOff
  /\ backendUp \in BOOLEAN
  /\ \E st \in SeqStarts, g \in BOOLEAN :
       /\ ServiceStart(st.docs, st.age)
       /\ env = SeqEnv(g, Len(st.docs) \div BatchSize)

SpecSeq == InitSeq /\ [][Step]_vars

(***************************************************************************)
(* Specification of the service with requests in flight together.          *)
(***************************************************************************)
ParCalls == 2        \* requests received
ParTicks == 1        \* days that pass

ParEnv(gemini, light) ==
  [gemini |-> gemini, mistral |-> FALSE, parallel |-> MaxHandlers,
   maxCalls |-> ParCalls,
   maxTicks |-> IF light THEN ParTicks ELSE 0,
   flakyIndex |-> light,
   raws |-> {AbsentRaw},
   bodies |-> {GoodBody("fruits"), GoodBody("blue garden 9999")},
   answers |-> IF light THEN {"throw", "empty", "exact"} ELSE {"throw"},
   draws |-> IF light THEN {"s3x1", "s9999"} ELSE {"s9999"},
   samples |-> {"oldest"},
   tickSteps |-> {oneDayMs}]

\* the collections a run starts from, with the age of their newest document
ParStarts ==
  { [docs |-> <<>>, age |-> 0],
    [docs |-> seedStore(11, SeedLatest), age |-> 2 * oneDayMs] }

Init ==
  /\ gen = GenOff /\ cl = ClientOff /\ lim = LimOff
  /\ \E st \in ParStarts, g \in BOOLEAN :
       LET light == Len(st.docs) <= BatchSize
       IN /\ ~light => ~g
          /\ ServiceStart(st.docs, st.age)
          /\ backendUp \in IF light THEN BOOLEAN ELSE {TRUE}
          /\ env = ParEnv(g, light)

Next == Step

Spec == Init /\ [][Next]_vars

(***************************************************************************)
(* Specification of the service with a provider that may never answer,     *)
(* one request at a time.  The event loop resumes every continuation whose *)
(* awaited database operation has completed: weak fairness of the steps of *)
(* the initialisation and of each handler.  Requests, the clock and the    *)
(* recovery of the database are the environment's and are not forced.      *)
(***************************************************************************)
LiveCalls == 2       \* requests received

LiveEnv(gemini, light) ==
  [gemini |-> gemini, mistral |-> FALSE, parallel |-> 1,
   maxCalls |-> IF light THEN LiveCalls ELSE 1,
   maxTicks |-> IF light THEN 1 ELSE 0,
   flakyIndex |-> light,
   raws |-> {AbsentRaw},
   bodies |-> {GoodBody("fruits")},
   answers |-> {"throw", "exact", "hang"},
   draws |-> {"s9999"},
   samples |-> {"oldest"},
   tickSteps |-> {oneDayMs}]

InitLive ==
  /\ gen = GenOff /\ cl = ClientOff /\ lim = LimOff
  /\ \E st \in ParStarts, g \in BOOLEAN :
       LET light == Len(st.docs) <= BatchSize
       IN /\ ServiceStart(st.docs, st.age)
          /\ backendUp \in IF light THEN BOOLEAN ELSE {TRUE}
          /\ env = LiveEnv(g, light)

InitProgress ==
  InitConnected \/ InitConnectFailed \/ InitIndexCreated \/ InitIndexFailed

Progress(h) ==
  \/ GetNotReady(h) \/ GetBegin(h) \/ GetCount(h) \/ GetLatest(h)
  \/ (\E mode \in env.samples : GetSample(h, mode))
  \/ GetDelete(h) \/ GetGenerate(h) \/ GetInsert(h) \/ GetFind(h)
  \/ PostNotReady(h) \/ PostValidate(h) \/ PostInsert(h)

SpecLive ==
  /\ InitLive /\ [][Step]_vars
  /\ WF_vars(InitProgress)
  /\ \A h \in Handlers : WF_vars(Progress(h))

(***************************************************************************)
(* Specification of the collection's growth: from an empty collection,     *)
(* with no provider key set, one Get call a day and nothing else; every    *)
(* fallback batch draws names that are not stored yet.                     *)
(***************************************************************************)
GrowCalls == 15      \* Get calls, one a day

GrowEnv ==
  [gemini |-> FALSE, mistral |-> FALSE, parallel |-> 1,
   maxCalls |-> GrowCalls,
   maxTicks |-> GrowCalls,
   flakyIndex |-> FALSE,
   raws |-> {AbsentRaw, RawOf(<<"5">>)},
   bodies |-> {},
   answers |-> {"throw"},
   draws |-> {"new"},
   samples |-> {"oldest"},
   tickSteps |-> {oneDayMs}]

InitGrow ==
  /\ gen = GenOff /\ cl = ClientOff /\ lim = LimOff
  /\ ServiceStartAt(<<>>, 0)
  /\ backendUp = TRUE
  /\ env = GrowEnv

\* the day's request arrives
DailyGet(h) == calls = ticks /\ \E raw \in env.raws : GetStart(h, raw)

\* the next day begins once the day's request is answered
NextDay == calls > ticks /\ InFlight = {} /\ Tick(oneDayMs)

NextGrow ==
  \/ InitConnected
  \/ InitIndexCreated
  \/ NextDay
  \/ \E h \in Handlers :
       \/ DailyGet(h)
       \/ GetBegin(h)
       \/ GetCount(h)
       \/ GetLatest(h)
       \/ \E mode \in env.samples : GetSample(h, mode)
       \/ GetDelete(h)
       \/ GetGenerate(h)
       \/ GetInsert(h)
       \/ GetFind(h)

SpecGrow == InitGrow /\ [][NextGrow]_vars

(***************************************************************************)
(* Specification of POST /categories alone: bodies of every shape, one     *)
(* request at a time, on an empty collection or one that holds "fruits".   *)
(***************************************************************************)
PostCalls == 2       \* requests received

manyWords(c) == [j \in 1..c |-> "m" \o ToString(j)]

PostBodies ==
  {Body(nk[1], nk[2], wk[1], wk[2], wk[3]) :
     nk \in {<<"missing", "">>, <<"string", "">>, <<"string", "fruits">>,
             <<"string", "animaux">>, <<"number", "0">>, <<"number", "7">>,
             <<"object", "">>},
     wk \in {<<"missing", <<>>, TRUE>>, <<"scalar", <<>>, TRUE>>,
             <<"array", <<>>, TRUE>>, <<"array", <<"un">>, TRUE>>,
             <<"array", <<"un", "2">>, FALSE>>,
             <<"array", manyWords(20), TRUE>>, <<"array", manyWords(21), TRUE>>}}

PostEnv ==
  [gemini |-> FALSE, mistral |-> FALSE, parallel |-> 1,
   maxCalls |-> PostCalls,
   maxTicks |-> 0,
   flakyIndex |-> FALSE,
   raws |-> {},
   bodies |-> PostBodies,
   answers |-> {"throw"},
   draws |-> {"new"},
   samples |-> {"oldest"},
   tickSteps |-> {oneDayMs}]

InitPost ==
  /\ gen = GenOff /\ cl = ClientOff /\ lim = LimOff
  /\ \E docs \in {<<>>, SubSeq(duplicateStore, 1, 1)} : ServiceStart(docs, hourMs)
  /\ backendUp = TRUE
  /\ env = PostEnv

NextPost ==
  \/ InitConnected
  \/ InitIndexCreated
  \/ \E h \in Handlers :
       \/ \E body \in env.bodies : PostStart(h, body)
       \/ PostValidate(h)
       \/ PostInsert(h)

SpecPost == InitPost /\ [][NextPost]_vars

(***************************************************************************)
(* Specification of the initialisation, for both routers: the one that     *)
(* initialises on the first request (getCollection) and the one that       *)
(* initialises when the module is loaded and keeps the handle in           *)
(* `collection`.  The process may be started again on the same database.   *)
(* The runs of the second router start from collections whose newest       *)
(* document is fresh, so its handlers never reach a generateCategories     *)
(* call.                                                                   *)
(***************************************************************************)
SetupCalls == 3      \* requests received
MaxSetups == 2       \* initialisations started on one database

\* the router keeps a module-level handle and no promise
isEager == collectionPromise = "unused"

\* variant: the handle is there from the moment the module is loaded
collectionSetAtLoad == initPc # "failed"

\* let collection = null; ... collection = coll; runs in the continuation of
\* connectToDb that goes on to call createIndex
collection == initPc \in {"createIndex", "done"}

\* await connectToDb(...) rejects: the outer catch logs, collection stays null
EagerConnectFailed ==
  /\ isEager
  /\ initPc = "connectToDb"
  /\ ~backendUp
  /\ initPc' = "failed"
  /\ UNCHANGED <<pureVars, dbVars, collectionPromise, initStarts, timeVars, hs, calls, envVars>>

\* await collection.createIndex(...) succeeds
EagerIndexCreated ==
  /\ isEager
  /\ initPc = "createIndex"
  /\ noDuplicateNames(store)
  /\ uniqueIndex' = TRUE
  /\ initPc' = "done"
  /\ UNCHANGED <<pureVars, store, nextId, collectionPromise, initStarts, timeVars, hs, calls, envVars>>

\* createIndex throws: catch (idxErr) logs and goes on
EagerIndexFailed ==
  /\ isEager
  /\ initPc = "createIndex"
  /\ ~uniqueIndex
  /\ ~noDuplicateNames(store) \/ env.flakyIndex
  /\ initPc' = "done"
  /\ UNCHANGED <<pureVars, dbVars, collectionPromise, initStarts, timeVars, hs, calls, envVars>>

\* router.get('/categories'): if (!collection) return 503; now = new Date();
\* countDocuments() is awaited; the final find is limited to 1000
EagerGetStart(h, raw) ==
  /\ isEager
  /\ canStart(h)
  /\ hs' = [hs EXCEPT ![h] =
              IF collection
              THEN [started(h, "get", raw, NoBody) EXCEPT !.pc = "countDocuments",
                                                          !.limit = MaxLimit,
                                                          !.now = clock]
              ELSE [started(h, "get", raw, NoBody) EXCEPT !.pc = "done", !.status = 503,
                                                          !.failedAtCall = TRUE]]
  /\ calls' = calls + 1
  /\ UNCHANGED <<pureVars, dbVars, initVars, timeVars, envVars>>

\* router.post('/categories'): if (!collection) return 503; the three 400
\* checks; insertOne is awaited
EagerPostStart(h, body) ==
  /\ isEager
  /\ canStart(h)
  /\ hs' = [hs EXCEPT ![h] =
              IF ~collection
              THEN [started(h, "post", AbsentRaw, body) EXCEPT !.pc = "done", !.status = 503,
                                                               !.failedAtCall = TRUE]
              ELSE IF bodyInvalid(body)
              THEN [started(h, "post", AbsentRaw, body) EXCEPT !.pc = "done", !.status = 400]
              ELSE [started(h, "post", AbsentRaw, body) EXCEPT !.pc = "insertOne"]]
  /\ calls' = calls + 1
  /\ UNCHANGED <<pureVars, dbVars, initVars, timeVars, envVars>>

\* the process is stopped and started again: the module is loaded anew, the
\* database keeps its documents and its index
Restart ==
  /\ InFlight = {}
  /\ initPc \in {"done", "failed"}
  /\ initStarts < MaxSetups
  /\ hs' = [h \in Handlers |-> IdleHandler]
  /\ IF isEager
     THEN /\ initPc' = "connectToDb"
          /\ initStarts' = initStarts + 1
          /\ UNCHANGED collectionPromise
     ELSE /\ collectionPromise' = "null"
          /\ initPc' = "none"
          /\ UNCHANGED initStarts
  /\ UNCHANGED <<pureVars, dbVars, timeVars, calls, envVars>>

SetupEnv ==
  [gemini |-> FALSE, mistral |-> FALSE, parallel |-> MaxHandlers,
   maxCalls |-> SetupCalls,
   maxTicks |-> 0,
   flakyIndex |-> TRUE,
   raws |-> {AbsentRaw},
   bodies |-> {GoodBody("fruits"), NoBody},
   answers |-> {"throw"},
   draws |-> {"s3x1"},
   samples |-> {"oldest"},
   tickSteps |-> {oneDayMs}]

\* the collections a run starts from: none yet, one with a duplicate name,
\* one left by the fallback generator two hours ago
SetupStarts ==
  { [docs |-> <<>>, age |-> 0],
    [docs |-> duplicateStore, age |-> hourMs],
    [docs |-> seedStore(1, SeedLatest), age |-> 2 * hourMs] }

\* the router that initialises at load: the initialiser is already running
EagerStart(docs, age) ==
  /\ store = docs
  /\ nextId = Len(docs) + 1
  /\ uniqueIndex = FALSE
  /\ collectionPromise = "unused" /\ initPc = "connectToDb" /\ initStarts = 1
  /\ clock = SeedLatest + age
  /\ ticks = 0
  /\ hs = [h \in Handlers |-> IdleHandler]
  /\ calls = 0

InitSetup ==
  /\ gen = GenOff /\ cl = ClientOff /\ lim = LimOff
  /\ backendUp \in BOOLEAN
  /\ env = SetupEnv
  /\ \E st \in SetupStarts :
       \/ ServiceStart(st.docs, st.age)
       \/ st.docs # <<>> /\ EagerStart(st.docs, st.age)

NextSetup ==
  \/ InitConnected
  \/ ~isEager /\ InitConnectFailed
  \/ ~isEager /\ InitIndexCreated
  \/ ~isEager /\ InitIndexFailed
  \/ EagerConnectFailed
  \/ EagerIndexCreated
  \/ EagerIndexFailed
  \/ BackendRecovers
  \/ Restart
  \/ \E h \in Handlers :
       \/ \E raw \in env.raws : ~isEager /\ GetStart(h, raw)
       \/ \E raw \in env.raws : EagerGetStart(h, raw)
       \/ GetNotReady(h)
       \/ GetBegin(h)
       \/ GetCount(h)
       \/ GetLatest(h)
       \/ GetGenerate(h)
       \/ GetInsert(h)
       \/ GetFind(h)
       \/ \E body \in env.bodies : ~isEager /\ PostStart(h, body)
       \/ \E body \in env.bodies : EagerPostStart(h, body)
       \/ PostNotReady(h)
       \/ PostValidate(h)
       \/ PostInsert(h)

SpecSetup == InitSetup /\ [][NextSetup]_vars

(***************************************************************************)
(* Specification of the db/connect module alone: getClient is called by    *)
(* callers whose calls may overlap, closeClient by the application.        *)
(***************************************************************************)
InitClient ==
  /\ gen = GenOff /\ lim = LimOff
  /\ cl \in {ClientIdle("cached"), ClientIdle("flagged")}
  /\ ServiceOff

NextClient ==
  \/ CloseStart
  \/ CloseDone
  \/ \E c \in Callers :
       \/ GetClientCached(c)
       \/ ConnectedCached(c)
       \/ GetClientFlagged(c)
       \/ ConnectedFlagged(c)
       \/ ConnectRejected(c)

SpecClient == InitClient /\ [][NextClient]_vars

(***************************************************************************)
(* Specification of the fallback generator alone, in its two versions: n   *)
(* and the random draws are chosen in Init, the call computes the batch.   *)
(* The draws give the suffix s1 to the indices below split and s2 to the   *)
(* others, so two given indices can draw equal or different suffixes.      *)
(***************************************************************************)
FallbackMax == 100   \* fallbackGenerate(n) is explored for n in 0..FallbackMax

FallbackRandom ==
  {r \in RandomSources({0, SuffixRange - 1}, {0, 10, 49}) :
     r.wseed = 0 /\ r.wstep = 1 /\ r.tagmod = 0}

InitFallback ==
  /\ gen \in {GenIdle(n, [gemini |-> FALSE, mistral |-> FALSE], ThrowResponse,
                      ThrowResponse, r) :
                n \in 0..FallbackMax, r \in FallbackRandom}
  /\ lim = LimOff /\ cl = ClientOff
  /\ ServiceOff

\* fallbackGenerate(n) of the router that initialises on the first request
Fallback ==
  /\ gen.pc = "call"
  /\ gen' = [gen EXCEPT !.pc = "returned",
               !.result = fallbackGenerate(gen.n, gen.rnd, 0),
               !.asked = <<FallbackTag>>]
  /\ UNCHANGED <<lim, cl, dbVars, initVars, timeVars, hs, calls, envVars>>

\* fallbackGenerate(n) of the router that initialises at load
FallbackInline ==
  /\ gen.pc = "call"
  /\ gen' = [gen EXCEPT !.pc = "returnedInline",
               !.result = fallbackGenerateInline(gen.n, gen.rnd, 0),
               !.asked = <<FallbackTag>>]
  /\ UNCHANGED <<lim, cl, dbVars, initVars, timeVars, hs, calls, envVars>>

NextFallback == Fallback \/ FallbackInline

SpecFallback == InitFallback /\ [][NextFallback]_vars

(***************************************************************************)
(*                              PROPERTIES                                 *)
(***************************************************************************)

validRecord(c) == c.categoryName # "" /\ Len(c.words) >= 1 /\ Len(c.words) <= 20

\* C1: for every n >= 0, every configuration of available providers and
\* every provider response, generateCategories(n) returns exactly n records,
\* each with a non-empty categoryName and between 1 and 20 words.
C1_ReturnsNValidRecords ==
  gen.pc = "returned" =>
    /\ Len(gen.result) = gen.n
    /\ \A k \in 1..Len(gen.result) : validRecord(gen.result[k])

\* Did an asked provider fail, in the sense of the provider chain: an error,
\* no text, a malformed or non-array payload, or an empty result list?
providerFailed(resp) ==
  \/ resp.outcome # "text"
  \/ ~jsonTextIsPayload(resp)
  \/ resp.json # "array"
  \/ \E k \in 1..Len(resp.items) : itemThrows(resp.items[k])
  \/ resp.items = <<>>


\* what the chain is to return when a failed provider is always passed over
resultPassingFailures(g) ==
  IF g.cfg.gemini /\ ~providerFailed(g.gemResp)
  THEN providerAttempt(g.gemResp, "gemini", 0).cats
  ELSE IF g.cfg.mistral /\ ~providerFailed(g.misResp)
  THEN providerAttempt(g.misResp, "mistral", 0).cats
  ELSE fallbackGenerate(g.n, g.rnd, 0)

\* C2: a failure of an available provider at any step (an error, a malformed
\* or non-array response, a missing text, an empty result list) makes the
\* chain go on to the next provider and finally to the fallback generator:
\* the result is never the failed provider's (empty) result.
C2_FailedProviderIsPassedOver ==
  gen.pc = "returned" => gen.result = resultPassingFailures(gen)

\* the limit a clamp into [1, 1000] with default 100 would give
clampedLimit(raw) ==
  LET p == parseInt(raw)
  IN IF p.nan THEN 100
     ELSE IF p.val > 1000 THEN 1000
     ELSE IF p.val < 1 THEN 1
     ELSE p.val

RECURSIVE decimalChars(_)
decimalChars(v) ==
  IF v < 10 THEN <<Digits[v + 1]>>
  ELSE Append(decimalChars(v \div 10), Digits[(v % 10) + 1])

CheckedLimits ==
  {a * 1000 + b * 100 + c * 10 + d : a, b, c, d \in {0, 1, 5}} \cup {1001, 50000}

getDone(h) == hs[h].kind = "get" /\ hs[h].pc = "done" /\ hs[h].status = 200
postDone(h) == hs[h].kind = "post" /\ hs[h].pc = "done"

\* the call has read its snapshot: count and the latest createdAt
snapshotTaken(h) ==
  /\ hs[h].kind = "get"
  /\ hs[h].pc \notin {"idle", "getCollection", "countDocuments", "findLatest"}
  /\ ~(hs[h].pc = "done" /\ hs[h].status # 200)

snapshotAge(h) == hs[h].now - hs[h].last.at

\* C3 (as claimed): a Create call whose name is stored already answers 409
\* and adds no record.
C3_DuplicateNameIsConflict ==
  \A h \in Handlers :
    (postDone(h) /\ hs[h].status \in {201, 409} /\ hs[h].nameTaken)
      => hs[h].status = 409 /\ hs[h].inserted = 0

\* C3 (amended): with the unique index on categoryName in place, a Create
\* call whose name is stored already answers 409 and adds no record, and a
\* Create call that answers 201 added exactly one record of a new name;
\* without the index (its creation failed) every valid Create answers 201 and
\* adds one record, whether or not the name is stored already.
C3_DuplicateNameIsConflictUnderIndex ==
  \A h \in Handlers :
    (postDone(h) /\ hs[h].status \in {201, 409})
      => /\ uniqueIndex =>
              /\ hs[h].nameTaken => hs[h].status = 409 /\ hs[h].inserted = 0
              /\ hs[h].status = 201 => ~hs[h].nameTaken /\ hs[h].inserted = 1
              /\ hs[h].status = 409 => hs[h].nameTaken
         /\ ~uniqueIndex => hs[h].status = 201 /\ hs[h].inserted = 1

\* a Create of a stored name was answered 409 under the index, after an
\* earlier Create on the same slot
C3_Witness ==
  \E h \in Handlers :
    /\ postDone(h) /\ uniqueIndex /\ hs[h].nameTaken
    /\ hs[h].status = 409 /\ hs[h].inserted = 0
    /\ hs[h].body.name \in Names(store)
    /\ hs[h].prev = "post"

\* C7: the capacity check and the freshness check are both made on the
\* snapshot read at the start of the call; a call whose snapshot is over
\* capacity and stale runs both blocks and inserts at most 200 records.
C7_BothBlocksInsertAtMost200 ==
  \A h \in Handlers :
    snapshotTaken(h) =>
      /\ hs[h].pruned => overCapacity(hs[h].count)
      /\ hs[h].refreshed => isStale(hs[h].last, hs[h].now)
      /\ (getDone(h) /\ overCapacity(hs[h].count) /\ isStale(hs[h].last, hs[h].now))
           => hs[h].pruned /\ hs[h].refreshed
      /\ hs[h].inserted <= 2 * BatchSize

\* C8: a Get call that finds the store fresh (latest createdAt less than 24
\* hours before now) and of at most 1000 records inserts nothing and deletes
\* nothing.
C8_FreshSmallStoreIsLeftAlone ==
  \A h \in Handlers :
    (snapshotTaken(h) /\ hs[h].count <= Capacity
       /\ hs[h].last.present /\ snapshotAge(h) < oneDayMs)
      => /\ hs[h].deleted = 0 /\ hs[h].inserted = 0 /\ hs[h].generated = 0
         /\ ~hs[h].pruned /\ ~hs[h].refreshed
         /\ Len(store) = hs[h].count

\* the second of two Gets in succession found the batch the first had stored,
\* still fresh, and answered without touching the store
C8_Witness ==
  \E h \in Handlers :
    /\ getDone(h) /\ hs[h].prev = "get" /\ calls = 2
    /\ hs[h].count = BatchSize /\ hs[h].last.present
    /\ snapshotAge(h) < oneDayMs
    /\ hs[h].deleted = 0 /\ hs[h].inserted = 0
    /\ Len(store) = BatchSize

scenarioB(h) ==
  /\ getDone(h)
  /\ hs[h].count = Capacity + 5 * BatchSize
  /\ hs[h].last.present /\ snapshotAge(h) = 2 * hourMs

\* C10 (as claimed): in that case the call removes 100 records, inserts 100,
\* makes no freshness insert and leaves 1500 records.
C10_ScenarioBKeeps1500 ==
  \A h \in Handlers :
    scenarioB(h)
      => /\ hs[h].deleted = SampleSize
         /\ hs[h].inserted = BatchSize
         /\ ~hs[h].refreshed
         /\ Len(store) = Capacity + 5 * BatchSize

\* C10 (amended): in that case the call removes 100 records, generates one
\* batch, inserts the records of the batch the unique index does not reject
\* (all of them without the index), makes no freshness insert and leaves
\* 1400 records plus the inserted ones.
C10_ScenarioBKeeps1400PlusInserted ==
  \A h \in Handlers :
    scenarioB(h)
      => /\ hs[h].deleted = SampleSize
         /\ hs[h].pruned /\ ~hs[h].refreshed
         /\ hs[h].inserted <= hs[h].generated
         /\ ~uniqueIndex => hs[h].inserted = hs[h].generated
         /\ Len(store) = Capacity + 5 * BatchSize - SampleSize + hs[h].inserted
         /\ uniqueIndex => noDuplicateNames(store)

\* scenario B ended with 1500 records: the whole batch was inserted
C10_Witness ==
  \E h \in Handlers :
    /\ scenarioB(h)
    /\ hs[h].deleted = SampleSize /\ hs[h].inserted = BatchSize
    /\ Len(store) = Capacity + 5 * BatchSize

\* C4 (as claimed): no two stored records ever share a categoryName, however
\* the calls interleave.
C4_NoDuplicateNames == noDuplicateNames(store)

\* C4 (amended): once the unique index on categoryName exists, no two stored
\* records share a categoryName, however the calls interleave.
C4_NoDuplicateNamesUnderIndex == uniqueIndex => noDuplicateNames(store)

\* two Gets ran together on an empty store under the index; both generated a
\* batch and the later insert lost records to the index
C4_Witness ==
  /\ uniqueIndex
  /\ \A h \in Handlers : getDone(h) /\ hs[h].count = 0 /\ hs[h].generated = BatchSize
  /\ \E h \in Handlers : hs[h].inserted < hs[h].generated
  /\ noDuplicateNames(store)

\* C5: initialization is started once however many calls arrive together,
\* and a call that arrives after a failed initialization starts a new one.
C5_InitOnceAndRetriedAfterFailure ==
  /\ (collectionPromise # "rejected" /\ \A h \in Handlers : ~hs[h].failedAtCall)
       => initStarts <= 1
  /\ \A h \in Handlers : (hs[h].kind # "none" /\ hs[h].failedAtCall) => hs[h].startedInit

\* the Get call met 1500 records, the newest 2 days old
scenarioC(h) ==
  /\ getDone(h)
  /\ hs[h].count = Capacity + 5 * BatchSize
  /\ hs[h].last.present /\ snapshotAge(h) = 2 * oneDayMs

\* C11 (as claimed): in that case the call runs the pruning and the freshness
\* block and leaves between 1500 and 1700 records.
C11_ScenarioCBetween1500And1700 ==
  \A h \in Handlers :
    scenarioC(h)
      => /\ hs[h].pruned /\ hs[h].refreshed
         /\ Len(store) >= Capacity + 5 * BatchSize
         /\ Len(store) <= Capacity + 7 * BatchSize

\* C11 (amended): in that case the call runs both blocks, removes 100 records
\* and leaves 1400 records plus the records inserted, which are at most the
\* records generated; when no provider key is set two fallback batches of
\* 100 are generated, so that the count lies between 1400 and 1600.
C11_ScenarioCIs1400PlusInserted ==
  \A h \in Handlers :
    scenarioC(h)
      => /\ hs[h].pruned /\ hs[h].refreshed
         /\ hs[h].deleted = SampleSize
         /\ hs[h].inserted <= hs[h].generated
         /\ ~uniqueIndex => hs[h].inserted = hs[h].generated
         /\ Len(store) = Capacity + 5 * BatchSize - SampleSize + hs[h].inserted
         /\ (~env.gemini /\ ~env.mistral)
              => /\ hs[h].generated = 2 * BatchSize
                 /\ Len(store) >= Capacity + 4 * BatchSize
                 /\ Len(store) <= Capacity + 6 * BatchSize

\* scenario C ended with 1400 records under the index: every record of both
\* fallback batches was rejected as a name conflict
C11_Witness ==
  \E h \in Handlers :
    /\ scenarioC(h) /\ uniqueIndex /\ ~env.gemini
    /\ hs[h].pruned /\ hs[h].refreshed
    /\ hs[h].generated = 2 * BatchSize /\ hs[h].inserted = 0
    /\ Len(store) = Capacity + 4 * BatchSize

Ids(docs) == {docs[j].id : j \in 1..Len(docs)}

\* the step removes documents from the collection
removes == Ids(store) \ Ids(store')

\* C12: pruning runs only in a call whose count was over 1000; one deletion
\* removes at most 100 documents, only sampled ones, and never more than the
\* collection holds; a sample holds min(100, size) ids; also when several
\* calls prune together.
C12_PruneDeletesAtMostSample ==
  [][ /\ \A h \in Handlers :
           (hs'[h].pruned \/ hs'[h].deleted > 0) => overCapacity(hs'[h].count)
      /\ \A h \in Handlers :
           hs'[h].toRemove # hs[h].toRemove /\ hs'[h].kind = "get" /\ hs[h].pc = "sample"
             => /\ Cardinality(hs'[h].toRemove) = Min(SampleSize, Len(store))
                /\ hs'[h].toRemove \subseteq Ids(store)
      /\ removes # {}
           => \E h \in Handlers :
                /\ hs[h].pc = "deleteMany" /\ hs'[h].pc = "generate1"
                /\ overCapacity(hs[h].count)
                /\ removes \subseteq hs[h].toRemove
                /\ Cardinality(removes) <= SampleSize
                /\ Cardinality(removes) <= Len(store)
                /\ hs'[h].deleted = Cardinality(removes)
                /\ Len(store') = Len(store) - Cardinality(removes)
    ]_vars

\* two calls pruned together: both sampled the same 100 documents, the first
\* deletion removed them, the second found none of them left
C12_Witness ==
  \E h1, h2 \in Handlers :
    /\ h1 # h2 /\ getDone(h1) /\ getDone(h2)
    /\ hs[h1].pruned /\ hs[h2].pruned
    /\ overCapacity(hs[h1].count) /\ overCapacity(hs[h2].count)
    /\ hs[h1].deleted = SampleSize /\ hs[h2].deleted = 0

BatchNames(batch) == {batch[k].categoryName : k \in 1..Len(batch)}

\* C13: an insert of a generated batch never fails the read.  Whatever the
\* index rejects, the call goes on (to the freshness block or to the final
\* find), every name of the batch is stored afterwards, exactly the records
\* of new names are added under the index (all records without it), and the
\* call answers 200 with the most recent records of the collection.
C13_InsertFailuresDoNotFailRead ==
  [][ \A h \in Handlers :
        /\ (hs[h].pc \in {"insertMany1", "insertMany2"} /\ hs'[h].pc # hs[h].pc)
             => LET batch == hs[h].newCats
                IN /\ hs'[h].pc \in {"generate2", "find"}
                   /\ Names(store') = Names(store) \cup BatchNames(batch)
                   /\ Len(store') - Len(store) =
                        IF uniqueIndex
                        THEN Cardinality(BatchNames(batch) \ Names(store))
                        ELSE Len(batch)
                   /\ SubSeq(store', 1, Len(store)) = store
        /\ (hs[h].pc = "find" /\ hs'[h].pc # hs[h].pc)
             => /\ hs'[h].pc = "done" /\ hs'[h].status = 200
                /\ hs'[h].docs = findRecent(store, hs[h].limit)
    ]_vars

\* a call whose whole batch of 100 was rejected as name conflicts answered
\* 200 with the records the collection holds
C13_Witness ==
  \E h \in Handlers :
    /\ getDone(h) /\ uniqueIndex
    /\ hs[h].generated = BatchSize /\ hs[h].inserted = 0
    /\ hs[h].status = 200
    /\ hs[h].docs = findRecent(store, hs[h].limit) /\ hs[h].docs # <<>>

\* C14: once the collection is ready, every Get call that is being served
\* eventually sends its response, whatever the providers do.
C14_GetEventuallyResponds ==
  \A h \in Handlers :
    (hs[h].kind = "get" /\ hs[h].pc \notin {"idle", "done"} /\ collectionPromise = "resolved")
      ~> (hs[h].pc = "done")

\* the bound on the collection: the capacity threshold, the batch that may
\* take a collection of 1000 over it, and the two batches of one call
CollectionBound == Capacity + 3 * BatchSize

\* C15: the record count never exceeds a fixed bound derived from the
\* capacity threshold 1000 and the batch size 100, in any state reached from
\* an empty collection by Get calls alone; and a pruning call does not leave
\* more records than it found.
C15_CollectionIsBounded ==
  /\ Len(store) <= CollectionBound
  /\ \A h \in Handlers :
       (getDone(h) /\ hs[h].pruned /\ InFlight = {}) => Len(store) <= hs[h].count

\* categoryName is a non-empty string and words a list of 1 to 20 strings
wellFormed(b) ==
  /\ b.nameKind = "string" /\ b.name # ""
  /\ b.wordsKind = "array" /\ Len(b.words) >= 1 /\ Len(b.words) <= 20 /\ b.strings

\* C16: a Create call is accepted exactly when its body is well formed: any
\* other body is answered 400 and inserts nothing; a well-formed body with a
\* new name is answered 201 and inserts one record of that name and words.
C16_CreateAcceptsExactlyWellFormed ==
  \A h \in Handlers :
    (postDone(h) /\ hs[h].status # 503)
      => /\ ~wellFormed(hs[h].body) => hs[h].status = 400 /\ hs[h].inserted = 0
         /\ (wellFormed(hs[h].body) /\ ~hs[h].nameTaken)
              => /\ hs[h].status = 201 /\ hs[h].inserted = 1
                 /\ \E k \in 1..Len(store) :
                      /\ store[k].categoryName = hs[h].body.name
                      /\ store[k].words = hs[h].body.words

\* the documents of the collection after the step that were in it before
\* are the same documents, field by field
keepsRecords == {d \in Range(store') : d.id \in Ids(store)} \subseteq Range(store)

\* a step that removes documents is the deleteMany of a Get call
removedByPruning(h) ==
  /\ hs[h].kind = "get" /\ hs[h].pc = "deleteMany" /\ hs'[h].pc # hs[h].pc
  /\ removes \subseteq hs[h].toRemove

\* C17 (as claimed): a stored record is never changed, no Create call removes
\* a record, and every removal happens while the collection holds more than
\* 1000 records.
C17_RecordsKeptUnlessOverCapacity ==
  [][ /\ keepsRecords
      /\ removes # {}
           => /\ \E h \in Handlers : removedByPruning(h)
              /\ Len(store) > Capacity
    ]_vars

\* C17 (amended): a stored record is never changed, no Create call removes a
\* record, and every removal is the pruning of a Get call whose count, read
\* at its start, was over 1000, and removes records that call sampled.
C17_RecordsKeptUnlessPruned ==
  [][ /\ keepsRecords
      /\ removes # {}
           => \E h \in Handlers : removedByPruning(h) /\ hs[h].count > Capacity
      /\ \A h \in Handlers :
           (hs[h].kind = "post" /\ hs[h].pc # "done" /\ hs'[h] # hs[h])
             => /\ removes = {}
                /\ Len(store') - Len(store) = hs'[h].inserted - hs[h].inserted
    ]_vars

\* two calls that both counted 1100 records pruned one after the other: the
\* second removed 100 records from a collection of 1000
C17_Witness ==
  \E h1, h2 \in Handlers :
    /\ h1 # h2 /\ getDone(h1) /\ getDone(h2)
    /\ hs[h1].count = Capacity + BatchSize /\ hs[h2].count = Capacity + BatchSize
    /\ hs[h1].deleted = SampleSize /\ hs[h2].deleted = SampleSize

served(h) == hs[h].pc = "done" /\ hs[h].status \in {200, 201, 400, 409}

\* C18: when createIndex fails, the initialisation still ends with a usable
\* collection handle and the GET and POST calls that follow are served, not
\* answered 503; no step of the initialisation, the first or a repeated
\* one, changes a document or removes the index.
C18_IndexFailureIsTolerated ==
  /\ [](\A h \in Handlers :
          (initPc = "done" /\ hs[h].pc = "done" /\ ~hs[h].failedAtCall) => served(h))
  /\ [][ /\ (initPc = "createIndex" /\ initPc' # initPc)
              => /\ initPc' = "done"
                 /\ ~isEager => collectionPromise' = "resolved"
         /\ initPc' # initPc
              => /\ store' = store /\ nextId' = nextId
                 /\ uniqueIndex => uniqueIndex'
         /\ \A h \in Handlers :
              (hs'[h].status = 503 /\ hs[h].status # 503)
                => initPc \in {"connectToDb", "failed"}
       ]_vars

\* the second initialisation on a collection with a duplicate name ended
\* without the index, and a GET and a POST call were served after it
C18_Witness ==
  /\ initPc = "done" /\ ~uniqueIndex /\ initStarts = MaxSetups
  /\ ~noDuplicateNames(store)
  /\ \E h1, h2 \in Handlers :
       /\ getDone(h1) /\ hs[h1].status = 200
       /\ postDone(h2) /\ hs[h2].status = 201

\* the awaits at which a call reads or writes the collection or asks a provider
WorkPcs ==
  {"countDocuments", "findLatest", "sample", "deleteMany", "generate1", "generate2",
   "providerPending", "insertMany1", "insertMany2", "find", "insertOne"}

\* the call has read nothing, written nothing and generated nothing
untouched(h) ==
  /\ hs[h].count = 0 /\ hs[h].last = NoDate /\ hs[h].docs = <<>>
  /\ hs[h].deleted = 0 /\ hs[h].inserted = 0 /\ hs[h].generated = 0
  /\ ~hs[h].pruned /\ ~hs[h].refreshed

\* the step receives a request in slot h
receives(h) == hs[h].pc \in {"idle", "done"} /\ hs'[h].kind # "none" /\ hs'[h] # hs[h]

\* C19: a GET or POST call received while the connection is not established
\* (connectToDb pending in the router that initialises at load, or failed
\* in either router) is answered 503 and reads, writes and generates
\* nothing; a call works on the collection only once connectToDb has
\* resolved and createIndex has been called.
C19_NotReadyAnswers503 ==
  /\ [](\A h \in Handlers :
          /\ hs[h].pc \in WorkPcs => initPc \in {"createIndex", "done"}
          /\ hs[h].failedAtCall => hs[h].pc \in {"getCollection", "done"}
          /\ (hs[h].failedAtCall /\ hs[h].pc = "done") => hs[h].status = 503
          /\ hs[h].status = 503 => untouched(h))
  /\ [][\A h \in Handlers :
          receives(h) =>
            /\ (isEager /\ initPc \in {"connectToDb", "failed"})
                 => hs'[h].pc = "done" /\ hs'[h].status = 503
            /\ (~isEager /\ initPc = "failed") => hs'[h].failedAtCall
            /\ dbVars' = dbVars
     ]_vars

\* while connectToDb was pending a GET call and then, in the same slot, a
\* POST call were received, and the POST call was answered 503
C19_Witness ==
  /\ isEager /\ initPc = "connectToDb" /\ store # <<>>
  /\ \E h \in Handlers :
       /\ hs[h].kind = "post" /\ hs[h].pc = "done" /\ hs[h].status = 503
       /\ hs[h].prev = "get"

\* C20: the response of a GET call is read after the deletes and inserts of
\* the call: it holds min(limit, size) documents of the collection as the
\* call leaves it, newest first, none of them older than a document left
\* out; no document the call sampled for deletion is in it; on an empty
\* collection it holds min(limit, inserted) records, which is more than
\* none when the fallback generator is the only source.
C20_ResponseIsFinalPageNewestFirst ==
  \A h \in Handlers :
    getDone(h) =>
      LET docs == hs[h].docs
      IN /\ Len(docs) = Min(hs[h].limit, Len(store))
         /\ \A k \in 1..Len(docs) : docs[k] \in Range(store)
         /\ \A k \in 1..(Len(docs) - 1) : docs[k].createdAt >= docs[k + 1].createdAt
         /\ docs # <<>> =>
              \A j \in 1..Len(store) :
                store[j].id \notin Ids(docs)
                  => store[j].createdAt <= docs[Len(docs)].createdAt
         /\ Ids(docs) \cap hs[h].toRemove = {}
         /\ hs[h].count = 0
              => /\ Len(docs) = Min(hs[h].limit, hs[h].inserted)
                 /\ (~env.gemini /\ ~env.mistral) => hs[h].inserted > 0

\* a call on 1500 documents deleted the 100 newest ones and answered with
\* documents that were stored before them
C20_Witness ==
  \E h \in Handlers :
    /\ getDone(h) /\ hs[h].deleted = SampleSize
    /\ (Capacity + 5 * BatchSize) \in hs[h].toRemove
    /\ hs[h].docs # <<>>
    /\ \E k \in 1..Len(hs[h].docs) : hs[h].docs[k].id <= Capacity + 4 * BatchSize

\* has the provider, asked, handed back a batch?
succeeded(resp, tag) == providerAttempt(resp, tag, 0).returned

isIn(x, seq) == \E k \in 1..Len(seq) : seq[k] = x

\* C21: generateCategories asks its sources in the order Gemini, Mistral,
\* fallback; a provider is asked exactly when its key is set and no provider
\* before it handed back a batch; the fallback runs exactly when no provider
\* with a key handed back a batch; every record of the result carries the
\* tag of the source asked last, so the tags of one batch are never mixed.
C21_ProvidersInOrderOneTag ==
  gen.pc = "returned" =>
    LET asked   == gen.asked
        rank(x) == CASE x = "gemini" -> 1 [] x = "mistral" -> 2 [] OTHER -> 3
        gemOk   == gen.cfg.gemini /\ succeeded(gen.gemResp, "gemini")
        misOk   == gen.cfg.mistral /\ succeeded(gen.misResp, "mistral")
    IN /\ asked # <<>>
       /\ \A k \in 1..Len(asked) : asked[k] \in {"gemini", "mistral", FallbackTag}
       /\ \A k \in 1..(Len(asked) - 1) : rank(asked[k]) < rank(asked[k + 1])
       /\ isIn("gemini", asked) <=> gen.cfg.gemini
       /\ isIn("mistral", asked) <=> (gen.cfg.mistral /\ ~gemOk)
       /\ isIn(FallbackTag, asked) <=> (~gemOk /\ ~misOk)
       /\ \A k \in 1..Len(gen.result) : gen.result[k].ai = asked[Len(asked)]

\* Gemini was asked and failed, Mistral was asked and its batch is the result
C21_Witness ==
  /\ gen.pc = "returned"
  /\ gen.asked = <<"gemini", "mistral">>
  /\ gen.result # <<>>
  /\ gen.result[1].ai = "mistral"

\* no connect() was rejected and closeClient was not called
undisturbed == cl.failed = 0 /\ cl.closes = 0 /\ cl.closePc = "idle"

returnedClients == {cl.callers[c].got : c \in {d \in Callers : cl.callers[d].pc = "done"}}

\* C22: whatever way getClient calls overlap, one MongoClient is constructed
\* and connect() is started once, and all callers get that instance; a call
\* made after closeClient does not get the instance that was closed.
C22_SingleClient ==
  /\ undisturbed =>
       /\ cl.built <= 1
       /\ cl.connects <= 1
       /\ returnedClients \subseteq {1}
  /\ \A c \in Callers :
       cl.callers[c].pc = "done" => cl.callers[c].got \notin cl.callers[c].closedBefore

\* C23: the names of one fallback batch of at most 100 records are pairwise
\* distinct whatever suffixes are drawn, so the batch loses no record to a
\* name conflict when it is inserted into an empty collection under the
\* unique index.
C23_FallbackNamesDistinct ==
  (gen.pc \in {"returned", "returnedInline"} /\ gen.n <= 100) =>
    /\ \A i, j \in 1..Len(gen.result) :
         i # j => gen.result[i].categoryName # gen.result[j].categoryName
    /\ Len(insertMany(<<>>, gen.result, TRUE, 1)) = gen.n

=============================================================================
